---- MODULE Spec2Model ----
(***************************************************************************)
(* Model of the attestation tracker of dora-proxy (src/proxy.go): the      *)
(* LastAttestCache, the per-slot pipeline processSlot, the continuous      *)
(* scanner started by AttestationTracker.Start and the one-shot Backfill   *)
(* with its producer and worker pool (scanEpochRange).                     *)
(* The head-root resolver of src/beacon.go and the two bitfield decoders   *)
(* are modelled on their own, applied to enumerated inputs.                *)
(*                                                                         *)
(* The consensus node is the environment: a fixed chain (Block,            *)
(* Committees) whose requests may fail at any time, a head that any call   *)
(* may resolve to any slot of the chain, and deadlines that may expire at  *)
(* any moment.                                                             *)
(*                                                                         *)
(* slotsPerEpoch and maxConcurrency are 32 and 16 in the source; the model *)
(* runs the same code with smaller values so that every interleaving of    *)
(* the producer, the workers and the scanner can be enumerated.  The       *)
(* number of workers, the ticks explored and the range of the head are     *)
(* fixed by the initial state (cfg), one choice per specification:         *)
(*   Spec      the scanner and Backfill side by side (head in one epoch),  *)
(*   SpecBf    Backfill alone, with a pool of several workers,             *)
(*   SpecBfFair Backfill alone under fair scheduling of its goroutines,    *)
(*   SpecScan  the scanner alone, over several ticks,                      *)
(*   SpecCache the cache under arbitrary callers and the decoration,       *)
(*   SpecHead  resolveHeadRoot over the responses of the two endpoints,    *)
(*   SpecDecode hexBitlist, validatorsForAttestation and the attestation   *)
(*             loop over enumerated bitfields, assignments and blocks.     *)
(***************************************************************************)
EXTENDS Integers, Sequences, FiniteSets, TLC

\* proxy.go:153 (32 in the source, scaled)
slotsPerEpoch == 2

\* proxy.go:394
maxAttempts == 3

\* proxy.go:267-268, the two epochs before the head epoch
backfillDepth == 2

\* Spec: workers (16 in the source, proxy.go:321), ticks, the epoch of the head
WorkersBoth == 1

TicksBoth == 1

HeadEpochsBoth == 1

\* SpecBf: workers, highest head epoch
WorkersBf == 2

HeadEpochsBf == 2

\* SpecBfFair: workers, highest head epoch
WorkersFair == 1

HeadEpochsFair == 2

\* SpecScan: ticks, highest head epoch
TicksScan == 3

HeadEpochsScan == 2

\* SpecCache: highest slot passed to the cache
SlotsCache == 2

Validators == {42, 17, 7}

(***************************************************************************)
(* hexBitlist: strings are sequences of one-character strings.             *)
(***************************************************************************)
ToLowerChar(c) ==
    CASE c = "A" -> "a" [] c = "B" -> "b" [] c = "C" -> "c" [] c = "D" -> "d"
      [] c = "E" -> "e" [] c = "F" -> "f" [] c = "X" -> "x" [] OTHER -> c

ToLower(s) == [i \in 1..Len(s) |-> ToLowerChar(s[i])]

TrimPrefix0x(s) ==
    IF Len(s) >= 2 /\ s[1] = "0" /\ s[2] = "x" THEN SubSeq(s, 3, Len(s)) ELSE s

\* value of one lower-case hex digit, -1 for any other character
fromHexChar(c) ==
    CASE c = "0" -> 0 [] c = "1" -> 1 [] c = "2" -> 2 [] c = "3" -> 3
      [] c = "4" -> 4 [] c = "5" -> 5 [] c = "6" -> 6 [] c = "7" -> 7
      [] c = "8" -> 8 [] c = "9" -> 9 [] c = "a" -> 10 [] c = "b" -> 11
      [] c = "c" -> 12 [] c = "d" -> 13 [] c = "e" -> 14 [] c = "f" -> 15
      [] OTHER -> -1

\* hex.DecodeString: [err, bytes]
hexDecodeString(hs) ==
    IF Len(hs) % 2 = 1 \/ \E i \in 1..Len(hs) : fromHexChar(hs[i]) = -1
    THEN [err |-> TRUE, bytes |-> <<>>]
    ELSE [err |-> FALSE,
          bytes |-> [k \in 1..(Len(hs) \div 2) |->
                        16 * fromHexChar(hs[2 * k - 1]) + fromHexChar(hs[2 * k])]]

Pow2(i) == CASE i = 0 -> 1 [] i = 1 -> 2 [] i = 2 -> 4 [] i = 3 -> 8
             [] i = 4 -> 16 [] i = 5 -> 32 [] i = 6 -> 64 [] i = 7 -> 128

\* the bits of a byte taken most-significant first
hexBitlistMsbFirst(hexstr) ==
    IF hexstr = <<>> THEN <<>>
    ELSE LET d == hexDecodeString(TrimPrefix0x(ToLower(hexstr)))
         IN IF d.err THEN <<>>
            ELSE [n \in 1..(8 * Len(d.bytes)) |->
                    ((d.bytes[((n - 1) \div 8) + 1] \div Pow2(7 - ((n - 1) % 8))) % 2) = 1]

\* the top bit of every byte left out
hexBitlistSevenBits(hexstr) ==
    IF hexstr = <<>> THEN <<>>
    ELSE LET d == hexDecodeString(TrimPrefix0x(ToLower(hexstr)))
         IN IF d.err THEN <<>>
            ELSE [n \in 1..(7 * Len(d.bytes)) |->
                    ((d.bytes[((n - 1) \div 7) + 1] \div Pow2((n - 1) % 7)) % 2) = 1]

\* element 8*k+i (0-based) is bit i of byte k
hexBitlist(hexstr) ==
    IF hexstr = <<>> THEN <<>>
    ELSE LET d == hexDecodeString(TrimPrefix0x(ToLower(hexstr)))
         IN IF d.err THEN <<>>
            ELSE [n \in 1..(8 * Len(d.bytes)) |->
                    ((d.bytes[((n - 1) \div 8) + 1] \div Pow2((n - 1) % 8)) % 2) = 1]

(***************************************************************************)
(* validatorsForAttestation.  An attestation is a record                   *)
(*   [aggregation_bits, has_committee_bits, committee_bits];               *)
(* idxToValidators is a function from committee indices to validator       *)
(* lists, the empty function for a nil map.                                *)
(***************************************************************************)
MapGet(m, k) == IF k \in DOMAIN m THEN m[k] ELSE <<>>

RECURSIVE ConcatCommitteesDescending(_, _, _)
\* the committees taken from the highest index down
ConcatCommitteesDescending(cbits, i, idxToValidators) ==
    IF i > Len(cbits) THEN <<>>
    ELSE ConcatCommitteesDescending(cbits, i + 1, idxToValidators)
         \o (IF cbits[i] THEN MapGet(idxToValidators, i - 1) ELSE <<>>)

RECURSIVE ConcatCommittees(_, _, _)
\* lines 529-538: the lists of the committees whose bit is set, ascending
ConcatCommittees(cbits, i, idxToValidators) ==
    IF i > Len(cbits) THEN <<>>
    ELSE (IF cbits[i] THEN MapGet(idxToValidators, i - 1) ELSE <<>>)
         \o ConcatCommittees(cbits, i + 1, idxToValidators)

RECURSIVE SelectVoters(_, _, _)
\* lines 539-543
SelectVoters(aggBits, i, concat) ==
    IF i > Len(aggBits) THEN <<>>
    ELSE (IF aggBits[i] /\ (i - 1) < Len(concat) THEN <<concat[i]>> ELSE <<>>)
         \o SelectVoters(aggBits, i + 1, concat)

\* an attestation without bitfield read as one of committee 0
validatorsForAttestationSingle(att, idxToValidators) ==
    LET aggBits == hexBitlist(att.aggregation_bits)
    IN IF att.has_committee_bits /\ att.committee_bits # <<>>
       THEN SelectVoters(aggBits, 1,
                ConcatCommittees(hexBitlist(att.committee_bits), 1, idxToValidators))
       ELSE SelectVoters(aggBits, 1, MapGet(idxToValidators, 0))

\* lines 522-547
validatorsForAttestation(att, idxToValidators) ==
    LET aggBits == hexBitlist(att.aggregation_bits)
    IN IF att.has_committee_bits /\ att.committee_bits # <<>>
       THEN SelectVoters(aggBits, 1,
                ConcatCommittees(hexBitlist(att.committee_bits), 1, idxToValidators))
       ELSE <<>>

RECURSIVE VotersOfBlockHalting(_, _, _)
\* the loop given up at the first attestation whose aggregation_bits do not decode
VotersOfBlockHalting(attestations, i, idxToValidators) ==
    IF i > Len(attestations) THEN <<>>
    ELSE IF hexDecodeString(TrimPrefix0x(ToLower(attestations[i].aggregation_bits))).err
         THEN <<>>
         ELSE validatorsForAttestation(attestations[i], idxToValidators)
              \o VotersOfBlockHalting(attestations, i + 1, idxToValidators)

RECURSIVE VotersOfBlock(_, _, _)
\* lines 458-469, the voters in the order processSlot applies them
VotersOfBlock(attestations, i, idxToValidators) ==
    IF i > Len(attestations) THEN <<>>
    ELSE validatorsForAttestation(attestations[i], idxToValidators)
         \o VotersOfBlock(attestations, i + 1, idxToValidators)

(***************************************************************************)
(* LastAttestCache: a function from the indices that have an entry.        *)
(***************************************************************************)
Get(c, index) == IF index \in DOMAIN c THEN c[index] ELSE 0

\* the store made unconditional
SetIfGreaterUpdatesAlways(c, index, slot) == TRUE

\* any slot other than the stored one replaces it
SetIfGreaterUpdatesIfDifferent(c, index, slot) == index \notin DOMAIN c \/ slot # c[index]

\* the comparison made non-strict
SetIfGreaterUpdatesGeq(c, index, slot) == index \notin DOMAIN c \/ slot >= c[index]

\* an existing entry never replaced
SetIfGreaterUpdatesAbsentOnly(c, index, slot) == index \notin DOMAIN c

\* line 174: the condition under which the entry is written
SetIfGreaterUpdates(c, index, slot) == index \notin DOMAIN c \/ slot > c[index]

\* the slot after the one given is stored
SetIfGreaterStoringNext(c, index, slot) ==
    IF SetIfGreaterUpdates(c, index, slot)
    THEN [i \in DOMAIN c \cup {index} |-> IF i = index THEN slot + 1 ELSE c[i]]
    ELSE c

SetIfGreater(c, index, slot) ==
    IF SetIfGreaterUpdates(c, index, slot)
    THEN [i \in DOMAIN c \cup {index} |-> IF i = index THEN slot ELSE c[i]]
    ELSE c

(***************************************************************************)
(* The chain served by the consensus node.  The blocks repeat with period  *)
(* six so that the chain is defined for every slot.                        *)
(***************************************************************************)
Att(cbits, agg) ==
    [aggregation_bits |-> agg, has_committee_bits |-> TRUE, committee_bits |-> cbits]

AttNoCommitteeBits(agg) ==
    [aggregation_bits |-> agg, has_committee_bits |-> FALSE, committee_bits |-> <<>>]

\* committee_bits 0x01, aggregation_bits 0x03
ExampleAtt == Att(<<"0", "x", "0", "1">>, <<"0", "x", "0", "3">>)

\* committee assignment {0: [42, 17]}
ExampleCommittees == [ci \in {0} |-> <<42, 17>>]

Block(slot) ==
    CASE slot % 6 = 0 -> [exists |-> TRUE, attestations |->
                            << Att(<<"0", "x", "0", "3">>, <<"0", "X", "0", "5">>),
                               AttNoCommitteeBits(<<"0", "x", "0", "1">>) >>]
      [] slot % 6 = 1 -> [exists |-> TRUE, attestations |-> <<ExampleAtt>>]
      [] slot % 6 = 2 -> [exists |-> FALSE, attestations |-> <<>>]
      [] slot % 6 = 3 -> [exists |-> TRUE, attestations |->
                            << Att(<<"0", "x", "0", "2">>, <<"0", "x", "f", "F">>),
                               Att(<<"0", "x", "0", "2">>, <<"0", "x", "0", "1">>) >>]
      [] slot % 6 = 4 -> [exists |-> TRUE, attestations |-> <<>>]
      [] OTHER -> [exists |-> TRUE, attestations |->
                     << AttNoCommitteeBits(<<"0", "x", "0", "3">>),
                        Att(<<>>, <<"0", "x", "f", "f">>) >>]

Committees(slot) ==
    IF slot % 6 = 1 THEN ExampleCommittees
    ELSE [ci \in {0, 1} |-> IF ci = 0 THEN <<42, 17>> ELSE <<7>>]

NilMap == [ci \in {} |-> <<>>]

VARIABLES
    cfg,              \* maxConcurrency and the bounds of the environment
    cache,            \* LastAttestCache.m
    lastScannedSlot,  \* AttestationTracker.lastScannedSlot
    scan,             \* the scanner goroutine: position and locals of one tick
    ctx2Done,         \* the 90 s scan context of the current tick has expired
    ticks,            \* ticks delivered so far
    bf,               \* Backfill and the producer of scanEpochRange
    ctxDone,          \* the context handed to Backfill has expired
    jobs,             \* the jobs channel's buffer
    closed,           \* close(jobs) has run
    slotsScanned,     \* atomic counter of scanEpochRange
    updates,          \* atomic counter of scanEpochRange
    wk,               \* the workers: position and current job
    ps,               \* the processSlot call of each process
    resp,             \* the response body last decorated
    hr,               \* the resolveHeadRoot call of the slot handler
    dec,              \* the last call of a decoder and its result
    hist              \* history of the run, read by the properties only

vars == << cfg, cache, lastScannedSlot, scan, ctx2Done, ticks, bf, ctxDone, jobs, closed,
           slotsScanned, updates, wk, ps, resp, hr, dec, hist >>

\* proxy.go:321
maxConcurrency == cfg.maxConcurrency

\* a queue with room for one slot more
jobsCapacityPlusOne == maxConcurrency * 2 + 1

\* proxy.go:322
jobsCapacity == maxConcurrency * 2

Scanner == 0

Workers == 1..maxConcurrency

Procs == {Scanner} \cup Workers

MaxTicks == cfg.maxTicks

MaxSlot == (cfg.maxHeadEpoch + 1) * slotsPerEpoch - 1

MinSlot == cfg.minHeadEpoch * slotsPerEpoch

\* the slots the head may be resolved to
Slots == MinSlot..MaxSlot

NoMap == [i \in {} |-> 0]

NoCall ==
    [pc |-> "none", slot |-> 0, attempt |-> 0, fetched |-> FALSE, attestations |-> <<>>,
     idxToValidators |-> NilMap, voters |-> <<>>, decoded |-> {}, updated |-> 0,
     pre |-> FALSE, committeeRequests |-> 0, committeesErr |-> FALSE, backoff |-> 0]

IdleScan ==
    [pc |-> "idle", headSlot |-> 0, start |-> 0, s |-> 0, slots |-> 0, updates |-> 0,
     aborted |-> FALSE]

NewBf ==
    [pc |-> "init", headEpoch |-> 0, endEpoch |-> 0, epoch |-> 0, slot |-> 0,
     produceAborted |-> FALSE, err |-> "none", retSlots |-> 0, retUpdates |-> 0]

NoHist ==
    [called |-> NoMap,       \* per index, the highest slot passed to SetIfGreater
     lastCall |-> [index |-> 0, slot |-> 0, ret |-> FALSE, flip |-> FALSE],
                             \* the last call of SetIfGreater made by a free caller
     applied |-> NoMap,      \* per voter, the highest slot of a returned processSlot
                             \* that fetched a block and decoded the voter
     submitted |-> <<>>,     \* the slots sent to jobs, in order
     started |-> {},         \* the slots for which a worker called processSlot
     startedTwice |-> FALSE, \* some slot was started by two worker calls
     retSum |-> 0,           \* sum of the values processSlot returned to workers
     lateSends |-> 0,        \* sends to jobs made after the deadline of Backfill
     skipped |-> {},         \* slots a tick of the scanner left out at its deadline
     won |-> {},             \* the pairs <<index, slot>> for which a SetIfGreater call
                             \* returned true
     wonTwice |-> FALSE,     \* two calls with the same pair returned true
     scannedMax |-> 0 - 1,   \* the highest slot the scanner has passed to processSlot
     noProgress |-> {}]      \* why ticks of the scanner went back to waiting: the head
                             \* request failed, the range was empty, the head was
                             \* behind the cursor

\* no resolveHeadRoot call is in progress
NoHead ==
    [pc |-> "idle", primary |-> [kind |-> "none"], fallback |-> [kind |-> "none"],
     root |-> <<>>, err |-> FALSE]

\* no decoder was called yet
NoDecode == [op |-> "none"]

InitWith(c) ==
    /\ cfg = c
    /\ cache = NoMap
    /\ lastScannedSlot = 0
    /\ scan = IdleScan
    /\ ctx2Done = FALSE
    /\ ticks = 0
    /\ bf = NewBf
    /\ ctxDone = FALSE
    /\ jobs = <<>>
    /\ closed = FALSE
    /\ slotsScanned = 0
    /\ updates = 0
    /\ wk = [w \in Workers |-> [pc |-> "unborn", slot |-> 0]]
    /\ ps = [p \in Procs |-> NoCall]
    /\ resp = [kind |-> "null"]
    /\ hr = NoHead
    /\ dec = NoDecode
    /\ hist = NoHist

(***************************************************************************)
(* processSlot, run by process p under its caller's context.               *)
(***************************************************************************)
ctxOf(p) == IF p = Scanner THEN ctx2Done ELSE ctxDone

Max(a, b) == IF a >= b THEN a ELSE b

SeqRange(q) == {q[i] : i \in 1..Len(q)}

\* m with the value at k raised to at least n
RaiseTo(m, k, n) ==
    [i \in DOMAIN m \cup {k} |->
        IF i = k THEN Max(n, IF k \in DOMAIN m THEN m[k] ELSE 0) ELSE m[i]]

\* the voters the chain's block of a slot decodes to
ChainVotersOf(slot) ==
    SeqRange(VotersOfBlock(Block(slot).attestations, 1, Committees(slot)))

\* the chain is served up to the last slot of the highest head epoch
ChainSlots ==
    0..((Max(Max(HeadEpochsBoth, HeadEpochsFair), Max(HeadEpochsBf, HeadEpochsScan)) + 1)
          * slotsPerEpoch - 1)

ChainVotersTable == [slot \in ChainSlots |-> ChainVotersOf(slot)]

ChainVoters(slot) == ChainVotersTable[slot]

\* the call frame at entry of processSlot(ctx, slot); pre records that no voter
\* of the chain's block has an entry at or above slot yet
NewCall(slot) ==
    [NoCall EXCEPT !.pc = "fetch", !.slot = slot, !.attempt = 1,
                   !.pre = \A v \in ChainVoters(slot) :
                              v \notin DOMAIN cache \/ cache[v] < slot]

\* the frame once processSlot has returned n
RetFrame(f, n) == [f EXCEPT !.pc = "ret", !.updated = n, !.voters = <<>>]

\* history kept when processSlot returns n to p
NoteReturn(h, p, f, n) ==
    [h EXCEPT !.applied = IF f.fetched
                          THEN [v \in DOMAIN h.applied \cup f.decoded |->
                                  IF v \in f.decoded
                                  THEN Max(f.slot, IF v \in DOMAIN h.applied
                                                   THEN h.applied[v] ELSE 0)
                                  ELSE h.applied[v]]
                          ELSE h.applied,
              !.retSum = IF p \in Workers THEN h.retSum + n ELSE h.retSum]

\* proxy.go:422, the milliseconds per attempt
backoffUnit == 100

\* the same wait after every attempt
backoffConstant(attempt) == backoffUnit

\* line 422: the wait after a failed attempt, in milliseconds
backoff(attempt) == attempt * backoffUnit

\* one attempt too many
LastAttemptOffByOne(attempt) == attempt = maxAttempts + 1

\* line 419
LastAttempt(attempt) == attempt = maxAttempts

psFrame == << cfg, lastScannedSlot, scan, ctx2Done, ticks, bf, ctxDone, jobs, closed,
              slotsScanned, updates, wk, resp, hr, dec >>

\* lines 396-408 and 430-454: one attempt of the block request and, when it
\* answers 200, the decoding of the payload
PSFetch(p) ==
    /\ ps[p].pc = "fetch"
    /\ LET f == ps[p]
           h == hist
       IN \/ \* 200 with the block of the chain
             /\ ~ctxOf(p)
             /\ Block(f.slot).exists
             /\ LET atts == Block(f.slot).attestations
                    g == [f EXCEPT !.fetched = TRUE, !.attestations = atts]
                IN IF Len(atts) = 0
                   THEN /\ ps' = [ps EXCEPT ![p] = RetFrame(g, 0)]
                        /\ hist' = NoteReturn(h, p, g, 0)
                   ELSE /\ ps' = [ps EXCEPT ![p] = [g EXCEPT !.pc = "committees"]]
                        /\ hist' = h
          \/ \* 200 with a payload that does not decode to a block body
             /\ ~ctxOf(p)
             /\ ps' = [ps EXCEPT ![p] = RetFrame(f, 0)]
             /\ hist' = NoteReturn(h, p, f, 0)
          \/ \* error or non-200 (always so once the context has expired)
             /\ IF LastAttempt(f.attempt)
                THEN /\ ps' = [ps EXCEPT ![p] = RetFrame(f, 0)]
                     /\ hist' = NoteReturn(h, p, f, 0)
                ELSE /\ ps' = [ps EXCEPT ![p] = [f EXCEPT !.pc = "backoff",
                                                          !.backoff = backoff(f.attempt)]]
                     /\ hist' = h
    /\ UNCHANGED cache
    /\ UNCHANGED psFrame

\* lines 423-428: the select between ctx.Done() and the backoff timer; the
\* step is the first of the two events
PSBackoff(p) ==
    /\ ps[p].pc = "backoff"
    /\ LET f == ps[p]
       IN IF ctxOf(p)
          THEN /\ ps' = [ps EXCEPT ![p] = RetFrame(f, 0)]
               /\ hist' = NoteReturn(hist, p, f, 0)
          ELSE /\ ps' = [ps EXCEPT ![p] = [f EXCEPT !.pc = "fetch",
                                                     !.attempt = f.attempt + 1,
                                                     !.backoff = 0]]
               /\ UNCHANGED hist
    /\ UNCHANGED cache
    /\ UNCHANGED psFrame

\* an assignment returned although the request failed
fetchCommitteesForSlotAnyway(ok, slot) == Committees(slot)

\* lines 473-520: the single committees request
fetchCommitteesForSlot(ok, slot) == IF ok THEN Committees(slot) ELSE NilMap

\* lines 458-463 for the block of each slot of the chain, under the assignment
\* the committees request gives when it succeeds and when it fails
BlockVotersTable ==
    [slot \in ChainSlots |-> [ok \in BOOLEAN |->
        VotersOfBlock(Block(slot).attestations, 1, fetchCommitteesForSlot(ok, slot))]]

\* the voters of the attestations a call for slot has fetched
BlockVoters(slot, ok) == BlockVotersTable[slot][ok]

\* lines 456-463: the committees request and the decoding of every attestation
PSCommittees(p) ==
    /\ ps[p].pc = "committees"
    /\ \E ok \in BOOLEAN :
         /\ ok => ~ctxOf(p)
         /\ LET f == ps[p]
                idxToValidators == fetchCommitteesForSlot(ok, f.slot)
                voters == BlockVoters(f.slot, ok)
                g == [f EXCEPT !.idxToValidators = idxToValidators, !.voters = voters,
                               !.decoded = SeqRange(voters),
                               !.committeeRequests = f.committeeRequests + 1,
                               !.committeesErr = ~ok]
            IN IF voters = <<>>
               THEN /\ ps' = [ps EXCEPT ![p] = RetFrame(g, 0)]
                    /\ hist' = NoteReturn(hist, p, g, 0)
               ELSE /\ ps' = [ps EXCEPT ![p] = [g EXCEPT !.pc = "write"]]
                    /\ UNCHANGED hist
    /\ UNCHANGED cache
    /\ UNCHANGED psFrame

\* history kept when SetIfGreater(index, slot) is called on cache c
NoteCall(h, c, index, slot) ==
    LET ret == SetIfGreaterUpdates(c, index, slot)
    IN [h EXCEPT !.called = RaiseTo(h.called, index, slot),
                 !.won = IF ret THEN h.won \cup {<<index, slot>>} ELSE h.won,
                 !.wonTwice = h.wonTwice \/ (ret /\ <<index, slot>> \in h.won)]

\* every SetIfGreater call counted, whatever it returned
PSWriteCountingCalls(p) ==
    /\ ps[p].pc = "write"
    /\ LET f == ps[p]
           vi == Head(f.voters)
           n == f.updated + 1
           g == [f EXCEPT !.voters = Tail(f.voters), !.updated = n]
           mine == IF Tail(f.voters) = <<>> THEN RetFrame(g, n) ELSE g
           h == NoteCall(hist, cache, vi, f.slot)
       IN /\ cache' = SetIfGreater(cache, vi, f.slot)
          /\ ps' = [ps EXCEPT ![p] = mine]
          /\ hist' = IF Tail(f.voters) = <<>> THEN NoteReturn(h, p, g, n) ELSE h
    /\ UNCHANGED << cfg, lastScannedSlot, scan, ctx2Done, ticks, bf, ctxDone, jobs, closed,
                    slotsScanned, updates, wk, resp, hr, dec >>

\* lines 464-468: one SetIfGreater(vi, slot) call
PSWrite(p) ==
    /\ ps[p].pc = "write"
    /\ LET f == ps[p]
           vi == Head(f.voters)
           n == IF SetIfGreaterUpdates(cache, vi, f.slot) THEN f.updated + 1
                ELSE f.updated
           g == [f EXCEPT !.voters = Tail(f.voters), !.updated = n]
           mine == IF Tail(f.voters) = <<>> THEN RetFrame(g, n) ELSE g
           h == NoteCall(hist, cache, vi, f.slot)
       IN /\ cache' = SetIfGreater(cache, vi, f.slot)
          /\ ps' = [ps EXCEPT ![p] = mine]
          /\ hist' = IF Tail(f.voters) = <<>> THEN NoteReturn(h, p, g, n) ELSE h
    /\ UNCHANGED psFrame

(***************************************************************************)
(* The continuous scanner: the goroutine of Start.                         *)
(***************************************************************************)
scanFrame == << cfg, cache, bf, ctxDone, jobs, closed, slotsScanned, updates, wk, resp,
               hr, dec >>

\* the range begun after the cursor also on the first scan
ScanStartAfterCursor(last, headSlot) == last + 1

\* the range made of the head alone on every scan
ScanStartAtHead(last, headSlot) == headSlot

\* lines 214-219: the first slot of the range
ScanStart(last, headSlot) == IF last = 0 THEN headSlot ELSE last + 1

\* a tick that enters the loop whatever the range
ScanTickNoEmptyCheck ==
    /\ scan.pc = "idle"
    /\ ticks < MaxTicks
    /\ ticks' = ticks + 1
    /\ \/ /\ hist' = [hist EXCEPT !.noProgress = hist.noProgress \cup {"head"}]
          /\ UNCHANGED << scan, ctx2Done >>
       \/ \E headSlot \in Slots :
            LET start == ScanStart(lastScannedSlot, headSlot)
            IN /\ scan' = [IdleScan EXCEPT !.pc = "loop", !.headSlot = headSlot,
                                           !.start = start, !.s = start]
               /\ ctx2Done' = FALSE
               /\ UNCHANGED hist
    /\ UNCHANGED << lastScannedSlot, ps >>
    /\ UNCHANGED << cfg, cache, bf, ctxDone, jobs, closed, slotsScanned, updates, wk,
                    resp, hr, dec >>

\* lines 205-226: a tick, the head request and the choice of the range
ScanTick ==
    /\ scan.pc = "idle"
    /\ ticks < MaxTicks
    /\ ticks' = ticks + 1
    /\ \/ \* getHeadSlot failed
          /\ hist' = [hist EXCEPT !.noProgress = hist.noProgress \cup {"head"}]
          /\ UNCHANGED << scan, ctx2Done >>
       \/ \E headSlot \in Slots :
            LET start == ScanStart(lastScannedSlot, headSlot)
                already == start > headSlot
            IN IF already
               THEN /\ hist' = [hist EXCEPT !.noProgress =
                                      hist.noProgress \cup {"empty"}
                                        \cup (IF headSlot < lastScannedSlot
                                              THEN {"behind"} ELSE {})]
                    /\ UNCHANGED << scan, ctx2Done >>
               ELSE /\ scan' = [IdleScan EXCEPT !.pc = "loop", !.headSlot = headSlot,
                                                !.start = start, !.s = start]
                    /\ ctx2Done' = FALSE
                    /\ UNCHANGED hist
    /\ UNCHANGED << lastScannedSlot, ps >>
    /\ UNCHANGED scanFrame

\* the loop without the deadline check of lines 234-239
ScanLoopNoDeadline ==
    /\ scan.pc = "loop"
    /\ IF scan.s > scan.headSlot
       THEN /\ scan' = [scan EXCEPT !.pc = "finish"]
            /\ UNCHANGED << ps, hist >>
       ELSE /\ scan' = [scan EXCEPT !.pc = "call", !.slots = scan.slots + 1]
            /\ ps' = [ps EXCEPT ![Scanner] = NewCall(scan.s)]
            /\ hist' = [hist EXCEPT !.scannedMax = Max(hist.scannedMax, scan.s)]
    /\ UNCHANGED << lastScannedSlot, ctx2Done, ticks >>
    /\ UNCHANGED << cfg, cache, bf, ctxDone, jobs, closed, slotsScanned, updates, wk,
                    resp, hr, dec >>

\* lines 233-241: the loop condition, the deadline check and the call
ScanLoop ==
    /\ scan.pc = "loop"
    /\ IF scan.s > scan.headSlot
       THEN /\ scan' = [scan EXCEPT !.pc = "finish"]
            /\ UNCHANGED << ps, hist >>
       ELSE IF ctx2Done
       THEN /\ scan' = [scan EXCEPT !.pc = "finish", !.aborted = TRUE]
            /\ hist' = [hist EXCEPT !.skipped = hist.skipped \cup (scan.s..scan.headSlot)]
            /\ UNCHANGED ps
       ELSE /\ scan' = [scan EXCEPT !.pc = "call", !.slots = scan.slots + 1]
            /\ ps' = [ps EXCEPT ![Scanner] = NewCall(scan.s)]
            /\ hist' = [hist EXCEPT !.scannedMax = Max(hist.scannedMax, scan.s)]
    /\ UNCHANGED << lastScannedSlot, ctx2Done, ticks >>
    /\ UNCHANGED scanFrame

\* line 241: processSlot has returned; s++
ScanRet ==
    /\ scan.pc = "call"
    /\ ps[Scanner].pc = "ret"
    /\ scan' = [scan EXCEPT !.pc = "loop", !.updates = scan.updates + ps[Scanner].updated,
                            !.s = scan.s + 1]
    /\ ps' = [ps EXCEPT ![Scanner] = NoCall]
    /\ UNCHANGED << lastScannedSlot, ctx2Done, ticks, hist >>
    /\ UNCHANGED scanFrame

\* lines 243-247: cancel2 and the cursor
ScanFinish ==
    /\ scan.pc = "finish"
    /\ lastScannedSlot' = scan.headSlot
    /\ scan' = IdleScan
    /\ ctx2Done' = FALSE
    /\ UNCHANGED << ticks, ps, hist >>
    /\ UNCHANGED scanFrame

\* the 90 s deadline of ctx2 (line 228) passes
ExpireScan ==
    /\ scan.pc \in {"loop", "call"}
    /\ ~ctx2Done
    /\ ctx2Done' = TRUE
    /\ UNCHANGED << lastScannedSlot, scan, ticks, ps, hist >>
    /\ UNCHANGED scanFrame

(***************************************************************************)
(* Backfill and scanEpochRange.  A uint64 that wraps below 0 is written    *)
(* Wrapped (it stands for 2^64-1).                                         *)
(***************************************************************************)
Wrapped == 0 - 1

Dec(x) == IF x = 0 THEN Wrapped ELSE x - 1

\* the subtraction without its guard
BackfillEndNoClamp(headEpoch) ==
    IF headEpoch >= backfillDepth THEN headEpoch - backfillDepth ELSE Wrapped

\* lines 265-271
BackfillEnd(headEpoch) ==
    IF headEpoch >= backfillDepth THEN headEpoch - backfillDepth ELSE 0

\* lines 348-349
EpochStartSlot(epoch) == epoch * slotsPerEpoch

EpochEndSlot(epoch) == EpochStartSlot(epoch) + (slotsPerEpoch - 1)

bfFrame == << cfg, cache, lastScannedSlot, scan, ctx2Done, ticks, ps, resp, hr, dec >>

\* lines 260-273 and 321-351: the head request, the window, the workers are
\* started and the producer enters its loop
BackfillStart ==
    /\ bf.pc = "init"
    /\ \/ \* getHeadSlot failed (always so once the context has expired)
          /\ bf' = [bf EXCEPT !.pc = "returned", !.err = "head"]
          /\ UNCHANGED wk
       \/ /\ ~ctxDone
          /\ \E headSlot \in Slots :
               LET headEpoch == headSlot \div slotsPerEpoch
               IN bf' = [bf EXCEPT !.pc = "check",
                                   !.headEpoch = headEpoch,
                                   !.endEpoch = BackfillEnd(headEpoch),
                                   !.epoch = headEpoch,
                                   !.slot = EpochEndSlot(headEpoch)]
          /\ wk' = [w \in Workers |-> [pc |-> "recv", slot |-> 0]]
    /\ UNCHANGED << ctxDone, jobs, closed, slotsScanned, updates, hist >>
    /\ UNCHANGED bfFrame

\* lines 366-378: what follows the second select of the producer
AfterSelect(b) ==
    IF b.slot = EpochStartSlot(b.epoch)
    THEN IF b.produceAborted \/ b.epoch = b.endEpoch \/ b.epoch = 0
         THEN [b EXCEPT !.pc = "close"]
         ELSE [b EXCEPT !.pc = "check", !.epoch = Dec(b.epoch),
                        !.slot = EpochEndSlot(Dec(b.epoch))]
    ELSE [b EXCEPT !.pc = "check", !.slot = Dec(b.slot)]

\* lines 352-360: the non-blocking deadline check of the producer
ProdCheck ==
    /\ bf.pc = "check"
    /\ IF ctxDone \/ bf.produceAborted
       THEN bf' = [bf EXCEPT !.pc = "close", !.produceAborted = TRUE]
       ELSE bf' = [bf EXCEPT !.pc = "send"]
    /\ UNCHANGED << ctxDone, jobs, closed, slotsScanned, updates, wk, hist >>
    /\ UNCHANGED bfFrame

\* line 364: jobs <- slot
Enqueue ==
    /\ jobs' = Append(jobs, bf.slot)
    /\ hist' = [hist EXCEPT !.submitted = Append(hist.submitted, bf.slot),
                            !.lateSends = IF ctxDone THEN hist.lateSends + 1
                                          ELSE hist.lateSends]
    /\ bf' = AfterSelect(bf)

\* lines 362-363: <-ctx.Done()
AbortSend ==
    /\ bf' = AfterSelect([bf EXCEPT !.produceAborted = TRUE])
    /\ UNCHANGED << jobs, hist >>

\* lines 361-365: the select is entered; when both cases are ready either is taken
ProdSend ==
    /\ bf.pc = "send"
    /\ \/ /\ Len(jobs) < jobsCapacity
          /\ Enqueue
       \/ /\ ctxDone
          /\ AbortSend
       \/ /\ Len(jobs) >= jobsCapacity
          /\ ~ctxDone
          /\ bf' = [bf EXCEPT !.pc = "blocked"]
          /\ UNCHANGED << jobs, hist >>
    /\ UNCHANGED << ctxDone, closed, slotsScanned, updates, wk >>
    /\ UNCHANGED bfFrame

\* the producer waiting for room only
ProdBlockedOnSendOnly ==
    /\ bf.pc = "blocked"
    /\ Len(jobs) < jobsCapacity
    /\ Enqueue
    /\ UNCHANGED << ctxDone, closed, slotsScanned, updates, wk >>
    /\ UNCHANGED << cfg, cache, lastScannedSlot, scan, ctx2Done, ticks, ps, resp, hr, dec >>

\* lines 361-365: the producer waits in the select; the step is the first of
\* the two events
ProdBlocked ==
    /\ bf.pc = "blocked"
    /\ \/ /\ ctxDone
          /\ AbortSend
       \/ /\ ~ctxDone
          /\ Len(jobs) < jobsCapacity
          /\ Enqueue
    /\ UNCHANGED << ctxDone, closed, slotsScanned, updates, wk >>
    /\ UNCHANGED bfFrame

\* the producer moving the scan cursor to the head it scanned from
ProdCloseMovingCursor ==
    /\ bf.pc = "close"
    /\ closed' = TRUE
    /\ bf' = [bf EXCEPT !.pc = "wait"]
    /\ lastScannedSlot' = EpochEndSlot(bf.headEpoch)
    /\ UNCHANGED << ctxDone, jobs, slotsScanned, updates, wk, hist >>
    /\ UNCHANGED << cfg, cache, scan, ctx2Done, ticks, ps, resp, hr, dec >>

\* line 380
ProdClose ==
    /\ bf.pc = "close"
    /\ closed' = TRUE
    /\ bf' = [bf EXCEPT !.pc = "wait"]
    /\ UNCHANGED << ctxDone, jobs, slotsScanned, updates, wk, hist >>
    /\ UNCHANGED bfFrame

\* the error of the context dropped
ScanErrNil(done) == "none"

\* lines 383-386: ctx.Err()
ScanErr(done) == IF done THEN "deadline" ELSE "none"

\* lines 381-386 and 274-279: wg.Wait, the totals and the error
BackfillReturn ==
    /\ bf.pc = "wait"
    /\ \A w \in Workers : wk[w].pc = "exited"
    /\ bf' = [bf EXCEPT !.pc = "returned", !.err = ScanErr(ctxDone),
                        !.retSlots = slotsScanned, !.retUpdates = updates]
    /\ UNCHANGED << ctxDone, jobs, closed, slotsScanned, updates, wk, hist >>
    /\ UNCHANGED bfFrame

\* line 332: a worker receives from jobs, or leaves its loop when jobs is closed
\* and drained
WRecv(w) ==
    /\ wk[w].pc = "recv"
    /\ IF jobs # <<>>
       THEN /\ wk' = [wk EXCEPT ![w] = [pc |-> "check", slot |-> Head(jobs)]]
            /\ jobs' = Tail(jobs)
       ELSE /\ closed
            /\ wk' = [wk EXCEPT ![w] = [pc |-> "exited", slot |-> 0]]
            /\ UNCHANGED jobs
    /\ UNCHANGED << bf, ctxDone, closed, slotsScanned, updates, hist >>
    /\ UNCHANGED bfFrame

wFrame == << cfg, cache, lastScannedSlot, scan, ctx2Done, ticks, resp, bf, ctxDone, jobs,
             closed, hr, dec >>

\* lines 334-339: the deadline check of a worker and the call
WCheck(w) ==
    /\ wk[w].pc = "check"
    /\ IF ctxDone
       THEN /\ wk' = [wk EXCEPT ![w] = [pc |-> "exited", slot |-> 0]]
            /\ UNCHANGED << ps, hist >>
       ELSE /\ wk' = [wk EXCEPT ![w].pc = "call"]
            /\ ps' = [ps EXCEPT ![w] = NewCall(wk[w].slot)]
            /\ hist' = [hist EXCEPT !.started = hist.started \cup {wk[w].slot},
                                    !.startedTwice = (hist.startedTwice
                                                      \/ wk[w].slot \in hist.started)]
    /\ UNCHANGED << slotsScanned, updates >>
    /\ UNCHANGED wFrame

\* only slots that updated the cache counted
SlotsScannedAfterIfUpdated(n, u) == IF u > 0 THEN n + 1 ELSE n

\* line 340
SlotsScannedAfter(n, u) == n + 1

\* line 341
UpdatesAfter(n, u) == n + u

\* lines 339-341: processSlot has returned; the two atomic adds
WRet(w) ==
    /\ wk[w].pc = "call"
    /\ ps[w].pc = "ret"
    /\ slotsScanned' = SlotsScannedAfter(slotsScanned, ps[w].updated)
    /\ updates' = UpdatesAfter(updates, ps[w].updated)
    /\ wk' = [wk EXCEPT ![w] = [pc |-> "recv", slot |-> 0]]
    /\ ps' = [ps EXCEPT ![w] = NoCall]
    /\ UNCHANGED hist
    /\ UNCHANGED wFrame

\* the deadline of the context handed to Backfill passes
ExpireBackfill ==
    /\ bf.pc # "returned"
    /\ ~ctxDone
    /\ ctxDone' = TRUE
    /\ UNCHANGED << bf, jobs, closed, slotsScanned, updates, wk, hist >>
    /\ UNCHANGED bfFrame

(***************************************************************************)
(* The decoration of a response (attachLastAttestSlot) and the cache under *)
(* arbitrary callers.  A JSON value is a record with a kind.               *)
(***************************************************************************)
JStr(chars) == [kind |-> "string", chars |-> chars]

JNum(n) == [kind |-> "number", n |-> n]

JArr(items) == [kind |-> "array", items |-> items]

JObj(fields) == [kind |-> "object", fields |-> fields]

JBool(b) == [kind |-> "bool", b |-> b]

activeOngoing == <<"a", "c", "t", "i", "v", "e", "_", "o", "n", "g", "o", "i", "n", "g">>

activeOnline == <<"a", "c", "t", "i", "v", "e", "_", "o", "n", "l", "i", "n", "e">>

withdrawalDone == <<"w", "i", "t", "h", "d", "r", "a", "w", "a", "l", "_", "d", "o", "n", "e">>

statusSlashed == <<"s", "l", "a", "s", "h", "e", "d">>

statusExited == <<"e", "x", "i", "t", "e", "d">>

RECURSIVE mapValidatorStatus(_)
\* proxy.go:108-132: the body after the status mapping
mapValidatorStatus(v) ==
    CASE v.kind = "object" ->
           LET m == v.fields
               hasStatus == "status" \in DOMAIN m /\ m["status"].kind = "string"
               slashed == "slashed" \in DOMAIN m /\ m["slashed"].kind = "bool"
                          /\ m["slashed"].b
               status == m["status"].chars
               mapped == IF status = activeOngoing THEN activeOnline
                         ELSE IF status = withdrawalDone
                              THEN (IF slashed THEN statusSlashed ELSE statusExited)
                              ELSE status
           IN JObj([k \in DOMAIN m |->
                      IF hasStatus /\ k = "status" THEN JStr(mapped)
                      ELSE mapValidatorStatus(m[k])])
      [] v.kind = "array" ->
           JArr([i \in 1..Len(v.items) |-> mapValidatorStatus(v.items[i])])
      [] OTHER -> v

decimalDigit(c) ==
    CASE c = "0" -> 0 [] c = "1" -> 1 [] c = "2" -> 2 [] c = "3" -> 3
      [] c = "4" -> 4 [] c = "5" -> 5 [] c = "6" -> 6 [] c = "7" -> 7
      [] c = "8" -> 8 [] c = "9" -> 9 [] OTHER -> -1

RECURSIVE ParseUintFrom(_, _, _)
\* strconv.ParseUint(t, 10, 64) from position i with the value so far
ParseUintFrom(t, i, acc) ==
    IF i > Len(t) THEN [n |-> acc, ok |-> TRUE]
    ELSE IF decimalDigit(t[i]) = -1 THEN [n |-> 0, ok |-> FALSE]
    ELSE ParseUintFrom(t, i + 1, 10 * acc + decimalDigit(t[i]))

\* beacon.go:178-193
parseUint64FromInterface(v) ==
    CASE v.kind = "string" ->
           IF v.chars = <<>> THEN [n |-> 0, ok |-> FALSE] ELSE ParseUintFrom(v.chars, 1, 0)
      [] v.kind = "number" -> [n |-> v.n, ok |-> TRUE]
      [] OTHER -> [n |-> 0, ok |-> FALSE]

\* a read that stores the zero value of a missing key
cacheAfterGetInserting(c, index) ==
    [i \in DOMAIN c \cup {index} |-> IF i \in DOMAIN c THEN c[i] ELSE 0]

\* lines 165-169: the map after a Get
cacheAfterGet(c, index) == c

RECURSIVE attachLastAttestSlot(_, _)
\* the body after the walk
attachLastAttestSlot(v, c) ==
    CASE v.kind = "object" ->
           LET m == v.fields
               hit == "validatorindex" \in DOMAIN m
                      /\ parseUint64FromInterface(m["validatorindex"]).ok
               keys == IF hit THEN DOMAIN m \cup {"lastattestationslot"} ELSE DOMAIN m
           IN JObj([k \in keys |->
                      IF hit /\ k = "lastattestationslot"
                      THEN JNum(Get(c, parseUint64FromInterface(m["validatorindex"]).n))
                      ELSE attachLastAttestSlot(m[k], c)])
      [] v.kind = "array" ->
           JArr([i \in 1..Len(v.items) |-> attachLastAttestSlot(v.items[i], c)])
      [] OTHER -> v

RECURSIVE Lookups(_)
\* the indices the walk passes to Get
Lookups(v) ==
    CASE v.kind = "object" ->
           LET m == v.fields
               own == IF "validatorindex" \in DOMAIN m
                         /\ parseUint64FromInterface(m["validatorindex"]).ok
                      THEN {parseUint64FromInterface(m["validatorindex"]).n}
                      ELSE {}
           IN own \cup UNION {Lookups(m[k]) : k \in DOMAIN m}
      [] v.kind = "array" -> UNION {Lookups(v.items[i]) : i \in 1..Len(v.items)}
      [] OTHER -> {}

RECURSIVE cacheAfterGets(_, _)
cacheAfterGets(c, indices) ==
    IF indices = {} THEN c
    ELSE LET i == CHOOSE x \in indices : TRUE
         IN cacheAfterGets(cacheAfterGet(c, i), indices \ {i})

\* response bodies of the upstream explorer
Bodies ==
    { JObj([k \in {"validatorindex", "status"} |->
              IF k = "validatorindex" THEN JStr(<<"4", "2">>)
              ELSE JStr(activeOngoing)]),
      JObj([k \in {"data"} |->
              JArr(<< JObj([j \in {"validatorindex"} |-> JNum(17)]),
                      JObj([j \in {"validatorindex"} |-> JStr(<<"7", "x">>)]),
                      JObj([j \in {"index"} |-> JNum(7)]) >>)]),
      JArr(<< JObj([k \in {"validatorindex", "detail"} |->
                      IF k = "validatorindex" THEN JNum(7)
                      ELSE JObj([j \in {"validatorindex", "status", "slashed"} |->
                                   CASE j = "validatorindex" -> JStr(<<"1", "7">>)
                                     [] j = "status" -> JStr(withdrawalDone)
                                     [] OTHER -> JBool(TRUE)])]) >>) }

cacheFrame == << cfg, lastScannedSlot, scan, ctx2Done, ticks, bf, ctxDone, jobs, closed,
                 slotsScanned, updates, wk, ps, hr, dec >>

\* router.go:19-24: the transform of a validator response
Decorate(body) ==
    /\ resp' = attachLastAttestSlot(mapValidatorStatus(body), cache)
    /\ cache' = cacheAfterGets(cache, Lookups(body))
    /\ UNCHANGED hist
    /\ UNCHANGED cacheFrame

\* lines 171-180: some caller calls SetIfGreater(index, slot)
CallSetIfGreater(index, slot) ==
    /\ cache' = SetIfGreater(cache, index, slot)
    /\ hist' = [NoteCall(hist, cache, index, slot) EXCEPT
                            !.lastCall = [index |-> index, slot |-> slot,
                                          ret |-> SetIfGreaterUpdates(cache, index, slot),
                                          flip |-> ~hist.lastCall.flip]]
    /\ UNCHANGED resp
    /\ UNCHANGED cacheFrame

(***************************************************************************)
(* resolveHeadRoot (beacon.go), called by the slot handler for id "head".  *)
(* A response is a transport error or a status with a body; a body is a    *)
(* JSON value or text that does not parse.                                 *)
(***************************************************************************)
\* beacon.go:29, http.StatusOK
StatusOK == 200

Malformed == [kind |-> "malformed"]

Absent == [kind |-> "absent"]

\* v[k] of a decoded JSON object
Field(v, k) ==
    IF v.kind = "object" /\ k \in DOMAIN v.fields THEN v.fields[k] ELSE Absent

rootA == <<"0", "x", "a">>

rootB == <<"0", "x", "b">>

\* bodies of /eth/v1/beacon/headers/head
HeadHeaderBodies ==
    { Malformed,
      JArr(<<>>),
      JObj([k \in {"execution_optimistic"} |-> JBool(FALSE)]),
      JObj([k \in {"data"} |-> JStr(rootA)]),
      JObj([k \in {"data"} |-> JObj([j \in {"header"} |-> JObj(<<>>)])]),
      JObj([k \in {"data"} |-> JObj([j \in {"root"} |-> JNum(7)])]),
      JObj([k \in {"data"} |-> JObj([j \in {"root"} |-> JStr(<<>>)])]),
      JObj([k \in {"data"} |-> JObj([j \in {"root"} |-> JStr(rootA)])]),
      JObj([k \in {"data"} |-> JObj([j \in {"root"} |-> JStr(rootB)])]) }

HeadHeaderResponses ==
    {[kind |-> "err"]}
      \cup {[kind |-> "http", status |-> 404, body |-> Malformed]}
      \cup {[kind |-> "http", status |-> StatusOK, body |-> b] : b \in HeadHeaderBodies}

\* values of a root field in a body of /eth/v2/beacon/blocks/head
RootFields == {Absent, JNum(7), JStr(<<>>), JStr(rootA), JStr(rootB)}

WithRoot(r) == IF r = Absent THEN {} ELSE {"root"}

DataFields ==
    {Absent, JStr(rootA)}
      \cup {JObj([j \in WithRoot(r) \cup {"message"} |->
                    IF j = "root" THEN r ELSE JObj(<<>>)]) : r \in RootFields}

HeadBlockBodies ==
    {Malformed, JArr(<<>>)}
      \cup {JObj([k \in WithRoot(r) \cup (IF d = Absent THEN {} ELSE {"data"}) |->
                    IF k = "root" THEN r ELSE d]) : r \in RootFields, d \in DataFields}

HeadBlockResponses ==
    {[kind |-> "err"]}
      \cup {[kind |-> "http", status |-> st, body |-> b] :
              st \in {StatusOK, 404}, b \in HeadBlockBodies}

\* beacon.go:34-42: the body decoded into struct{Data struct{Root string}}
headerRoot(body) ==
    LET data == Field(body, "data")
        root == Field(data, "root")
        fails == [err |-> TRUE, root |-> <<>>]
    IN IF body.kind # "object" THEN fails
       ELSE IF data = Absent THEN [err |-> FALSE, root |-> <<>>]
       ELSE IF data.kind # "object" THEN fails
       ELSE IF root = Absent THEN [err |-> FALSE, root |-> <<>>]
       ELSE IF root.kind # "string" THEN fails
       ELSE [err |-> FALSE, root |-> root.chars]

\* a non-empty string
NonEmptyString(v) == v.kind = "string" /\ v.chars # <<>>

\* beacon.go:63-76: the body decoded into a map, root looked up at the top
\* level and then under data
fallbackRoot(body) ==
    LET top == Field(body, "root")
        nested == Field(Field(body, "data"), "root")
    IN IF body.kind # "object" THEN [err |-> TRUE, root |-> <<>>]
       ELSE IF NonEmptyString(top) THEN [err |-> FALSE, root |-> top.chars]
       ELSE IF NonEmptyString(nested) THEN [err |-> FALSE, root |-> nested.chars]
       ELSE [err |-> TRUE, root |-> <<>>]

headFrame == << cfg, cache, lastScannedSlot, scan, ctx2Done, ticks, bf, ctxDone, jobs,
                closed, slotsScanned, updates, wk, ps, resp, dec, hist >>

HeadDone(h, d) == [h EXCEPT !.pc = "done", !.err = d.err, !.root = d.root]

\* router.go:38-39, beacon.go:13-23: the handler calls resolveHeadRoot, which
\* sends the head-header request
HRCall ==
    /\ hr.pc = "idle"
    /\ hr' = [NoHead EXCEPT !.pc = "primary"]
    /\ UNCHANGED headFrame

\* beacon.go:23-47: the answer to the head-header request
HRPrimary ==
    /\ hr.pc = "primary"
    /\ \E r \in HeadHeaderResponses :
         LET h == [hr EXCEPT !.primary = r]
         IN IF r.kind = "err"
            THEN hr' = HeadDone(h, [err |-> TRUE, root |-> <<>>])
            ELSE IF r.status # StatusOK
            THEN hr' = [h EXCEPT !.pc = "fallback"]
            ELSE LET d == headerRoot(r.body)
                 IN IF d.err THEN hr' = HeadDone(h, d)
                    ELSE IF d.root = <<>> THEN hr' = [h EXCEPT !.pc = "fallback"]
                    ELSE hr' = HeadDone(h, d)
    /\ UNCHANGED headFrame

\* beacon.go:50-77: resolveHeadRootFallback and the answer to its request
HRFallback ==
    /\ hr.pc = "fallback"
    /\ \E r \in HeadBlockResponses :
         LET h == [hr EXCEPT !.fallback = r]
         IN IF r.kind = "err"
            THEN hr' = HeadDone(h, [err |-> TRUE, root |-> <<>>])
            ELSE hr' = HeadDone(h, fallbackRoot(r.body))
    /\ UNCHANGED headFrame

\* router.go:40-45: the handler answers 502 or goes on with the root
HRReturn ==
    /\ hr.pc = "done"
    /\ hr' = NoHead
    /\ UNCHANGED headFrame

(***************************************************************************)
(* The decoders called on their own: hexBitlist and                        *)
(* validatorsForAttestation are applied to inputs drawn from bounded sets. *)
(***************************************************************************)
lowerDigits ==
    <<"0", "1", "2", "3", "4", "5", "6", "7", "8", "9", "a", "b", "c", "d", "e", "f">>

upperDigits ==
    <<"0", "1", "2", "3", "4", "5", "6", "7", "8", "9", "A", "B", "C", "D", "E", "F">>

\* the two hex digits of each byte, as encoding/hex writes them
EncodeToString(bytes, digits) ==
    [n \in 1..(2 * Len(bytes)) |->
        IF n % 2 = 1 THEN digits[(bytes[(n + 1) \div 2] \div 16) + 1]
        ELSE digits[(bytes[n \div 2] % 16) + 1]]

\* the spellings of a byte sequence a consensus node may send
Spellings(bytes) ==
    { <<"0", "x">> \o EncodeToString(bytes, lowerDigits),
      <<"0", "X">> \o EncodeToString(bytes, upperDigits),
      EncodeToString(bytes, lowerDigits) }

\* the second bytes tried in two-byte inputs
SecondBytes == {0, 1, 3, 128, 165, 255}

ByteSeqs ==
    {<<>>} \cup {<<b>> : b \in 0..255}
           \cup {<<a, b>> : a \in SecondBytes, b \in SecondBytes}

\* inputs that hex.DecodeString rejects: odd length, a character that is no
\* hex digit
MalformedHex ==
    { <<"0", "x", "1">>, <<"3">>, <<"0", "x", "0", "g">>, <<"z", "z">>,
      <<"0", "x", "0", "3", "f">>, <<"x", "0", "3">>, <<"0", "x", "0", "x", "0", "3">> }

\* committee_bits and aggregation_bits of the attestations decoded alone
CommitteeBitsInputs ==
    { <<"0", "x", "0", "0">>, <<"0", "x", "0", "1">>, <<"0", "x", "0", "2">>,
      <<"0", "X", "0", "3">>, <<"0", "x", "0", "5">>, <<"0", "6">>,
      <<"0", "x", "0", "1", "0", "1">> }

AggregationBitsInputs ==
    { <<>>, <<"0", "x", "0", "0">>, <<"0", "x", "0", "1">>, <<"0", "x", "0", "2">>,
      <<"0", "x", "0", "3">>, <<"0", "x", "0", "5">>, <<"0", "x", "0", "c">>,
      <<"0", "x", "F", "f">>, <<"0", "x", "0", "0", "0", "1">> }

\* results of fetchCommitteesForSlot
Assignments ==
    { NilMap,
      ExampleCommittees,
      [ci \in {0, 1} |-> IF ci = 0 THEN <<42, 17>> ELSE <<7>>],
      [ci \in {1, 2} |-> IF ci = 1 THEN <<7>> ELSE <<42, 17>>],
      [ci \in {0, 1} |-> IF ci = 0 THEN <<>> ELSE <<17, 7, 42>>],
      [ci \in {0, 8} |-> IF ci = 0 THEN <<42>> ELSE <<7, 17>>] }

\* attestations of the blocks decoded alone
BlockAttestations ==
    { ExampleAtt,
      Att(<<"0", "x", "0", "2">>, <<"0", "x", "0", "1">>),
      AttNoCommitteeBits(<<"0", "x", "0", "3">>),
      Att(<<>>, <<"0", "x", "f", "f">>),
      Att(<<"0", "x", "0", "1">>, <<"0", "x", "1">>),
      Att(<<"0", "x", "0", "g">>, <<"0", "x", "0", "1">>),
      Att(<<"0", "x", "0", "3">>, <<>>) }

decFrame == << cfg, cache, lastScannedSlot, scan, ctx2Done, ticks, bf, ctxDone, jobs,
               closed, slotsScanned, updates, wk, ps, resp, hr, hist >>

\* proxy.go:549-565 applied to a spelling of a byte sequence
DecodeBytes(bytes, hexstr) ==
    /\ dec = NoDecode
    /\ dec' = [op |-> "hexBitlist", hexstr |-> hexstr, wellFormed |-> TRUE,
               bytes |-> bytes, bits |-> hexBitlist(hexstr)]
    /\ UNCHANGED decFrame

\* proxy.go:549-565 applied to an input hex.DecodeString rejects
DecodeMalformed(hexstr) ==
    /\ dec = NoDecode
    /\ dec' = [op |-> "hexBitlist", hexstr |-> hexstr, wellFormed |-> FALSE,
               bytes |-> <<>>, bits |-> hexBitlist(hexstr)]
    /\ UNCHANGED decFrame

\* proxy.go:522-547 applied to one attestation
DecodeAttestation(att, idxToValidators) ==
    /\ dec = NoDecode
    /\ dec' = [op |-> "validatorsForAttestation", att |-> att,
               idxToValidators |-> idxToValidators,
               voters |-> validatorsForAttestation(att, idxToValidators)]
    /\ UNCHANGED decFrame

\* proxy.go:458-469: the voters of the attestations of one block, in order
DecodeBlock(attestations, idxToValidators) ==
    /\ dec = NoDecode
    /\ dec' = [op |-> "block", attestations |-> attestations,
               idxToValidators |-> idxToValidators,
               voters |-> VotersOfBlock(attestations, 1, idxToValidators)]
    /\ UNCHANGED decFrame

\* the decoder has returned
DecodeReturn ==
    /\ dec # NoDecode
    /\ dec' = NoDecode
    /\ UNCHANGED decFrame

(***************************************************************************)
(* The specifications.                                                     *)
(***************************************************************************)
Init ==
    InitWith([maxConcurrency |-> WorkersBoth, maxTicks |-> TicksBoth,
              minHeadEpoch |-> HeadEpochsBoth, maxHeadEpoch |-> HeadEpochsBoth])

InitBf ==
    InitWith([maxConcurrency |-> WorkersBf, maxTicks |-> 0,
              minHeadEpoch |-> 0, maxHeadEpoch |-> HeadEpochsBf])

InitScan ==
    InitWith([maxConcurrency |-> 0, maxTicks |-> TicksScan,
              minHeadEpoch |-> 0, maxHeadEpoch |-> HeadEpochsScan])

InitCache ==
    InitWith([maxConcurrency |-> 0, maxTicks |-> 0, minHeadEpoch |-> 0,
              maxHeadEpoch |-> 0])

NextScan ==
    \/ ScanTick
    \/ ScanLoop
    \/ ScanRet
    \/ ScanFinish
    \/ ExpireScan
    \/ PSFetch(Scanner)
    \/ PSBackoff(Scanner)
    \/ PSCommittees(Scanner)
    \/ PSWrite(Scanner)

NextBf ==
    \/ BackfillStart
    \/ ProdCheck
    \/ ProdSend
    \/ ProdBlocked
    \/ ProdClose
    \/ BackfillReturn
    \/ ExpireBackfill
    \/ \E w \in Workers : WRecv(w) \/ WCheck(w) \/ WRet(w)
    \/ \E w \in Workers : PSFetch(w) \/ PSBackoff(w) \/ PSCommittees(w) \/ PSWrite(w)

NextCache ==
    \/ \E index \in Validators, slot \in 0..SlotsCache : CallSetIfGreater(index, slot)
    \/ \E body \in Bodies : Decorate(body)

Next == NextScan \/ NextBf

Spec == Init /\ [][Next]_vars

SpecBf == InitBf /\ [][NextBf]_vars

SpecScan == InitScan /\ [][NextScan]_vars

InitBfFair ==
    InitWith([maxConcurrency |-> WorkersFair, maxTicks |-> 0,
              minHeadEpoch |-> 0, maxHeadEpoch |-> HeadEpochsFair])

\* the goroutine of Backfill: head request, producer, close, wg.Wait, return
ProducerStep ==
    BackfillStart \/ ProdCheck \/ ProdSend \/ ProdBlocked \/ ProdClose \/ BackfillReturn

\* the goroutine of worker w (lines 329-343), its processSlot calls included
WorkerStep(w) ==
    \/ WRecv(w) \/ WCheck(w) \/ WRet(w)
    \/ PSFetch(w) \/ PSBackoff(w) \/ PSCommittees(w) \/ PSWrite(w)

\* every goroutine that can run does run, and every outbound call returns;
\* nothing is assumed of the deadline
SpecBfFair ==
    /\ InitBfFair
    /\ [][NextBf]_vars
    /\ WF_vars(ProducerStep)
    /\ \A w \in 1..WorkersFair : WF_vars(WorkerStep(w))

SpecCache == InitCache /\ [][NextCache]_vars

NextHead ==
    \/ HRCall
    \/ HRPrimary
    \/ HRFallback
    \/ HRReturn

SpecHead == InitCache /\ [][NextHead]_vars

NextDecode ==
    \/ DecodeReturn
    \/ \E bytes \in ByteSeqs : \E hexstr \in Spellings(bytes) : DecodeBytes(bytes, hexstr)
    \/ \E hexstr \in MalformedHex : DecodeMalformed(hexstr)
    \/ \E cbits \in CommitteeBitsInputs \cup MalformedHex \cup {<<>>},
          agg \in AggregationBitsInputs \cup MalformedHex,
          idxToValidators \in Assignments :
            \/ DecodeAttestation(Att(cbits, agg), idxToValidators)
            \/ DecodeAttestation(AttNoCommitteeBits(agg), idxToValidators)
    \/ \E a \in BlockAttestations, b \in BlockAttestations, c \in BlockAttestations,
          n \in 0..3, idxToValidators \in Assignments :
            DecodeBlock(SubSeq(<<a, b, c>>, 1, n), idxToValidators)

SpecDecode == InitCache /\ [][NextDecode]_vars

TypeOK ==
    /\ DOMAIN cache \subseteq Validators
    /\ \A v \in DOMAIN cache : cache[v] \in Nat
    /\ lastScannedSlot \in Nat

(***************************************************************************)
(* Properties.                                                             *)
(***************************************************************************)

\* C1: for every validator index the value Get returns never decreases from
\* one state to the next, whatever the scanner and the workers write.
C1_Monotonic ==
    [][\A v \in Validators : Get(cache', v) >= Get(cache, v)]_vars

\* a call is about to pass a slot lower than the stored one while another
\* process is inside processSlot
C1_Witness ==
    \E p \in Procs, q \in Procs :
        /\ p # q
        /\ ps[q].pc # "none"
        /\ ps[p].pc = "write"
        /\ Head(ps[p].voters) \in DOMAIN cache
        /\ cache[Head(ps[p].voters)] > ps[p].slot

\* C2: SetIfGreater(index, slot) stores slot and returns true exactly when
\* index has no entry or slot is strictly greater than the stored value;
\* otherwise it returns false and leaves the entry as it is; the entries of
\* the other indices are unchanged in both cases.
C2_SetIfGreaterContract ==
    [][hist'.lastCall # hist.lastCall =>
         LET i == hist'.lastCall.index
             s == hist'.lastCall.slot
             r == hist'.lastCall.ret
         IN /\ r = (i \notin DOMAIN cache \/ s > cache[i])
            /\ r => (i \in DOMAIN cache' /\ cache'[i] = s)
            /\ ~r => (i \in DOMAIN cache' /\ cache'[i] = cache[i])
            /\ DOMAIN cache' = DOMAIN cache \cup {i}
            /\ \A j \in DOMAIN cache \ {i} : cache'[j] = cache[j]]_vars

\* a call with a slot below the stored one has returned false
C2_Witness ==
    /\ hist.lastCall.flip
    /\ ~hist.lastCall.ret
    /\ hist.lastCall.index \in DOMAIN cache
    /\ cache[hist.lastCall.index] > hist.lastCall.slot

\* C3: whatever the order of the SetIfGreater calls made so far, Get(v) is
\* the highest slot passed for v, and 0 when no call was made for v.
C3_MaxOfCalls ==
    \A v \in Validators :
        Get(cache, v) = (IF v \in DOMAIN hist.called THEN hist.called[v] ELSE 0)

\* a processSlot call has returned whose voter stands at a higher slot: the
\* lower slot was passed after the higher one
C3_Witness ==
    \E p \in Procs :
        /\ ps[p].pc = "ret"
        /\ \E v \in ps[p].decoded : Get(cache, v) > ps[p].slot

\* C4: the cache changes only in a SetIfGreater call; decorating a response
\* (Get, attachLastAttestSlot) leaves it unchanged; no step removes an entry.
C4_WrittenOnlyBySetIfGreater ==
    [][/\ DOMAIN cache \subseteq DOMAIN cache'
       /\ cache' # cache => hist'.lastCall # hist.lastCall
       /\ resp' # resp => cache' = cache]_vars

\* a decorated object carries a slot read from a non-empty cache, and an
\* index without entry was looked up
C4_Witness ==
    /\ resp.kind = "array"
    /\ resp.items[1].fields["lastattestationslot"].n > 0
    /\ 17 \notin DOMAIN cache

\* the process is the only one that has called processSlot so far
Alone(p) ==
    IF p = Scanner THEN hist.started = {}
    ELSE ticks = 0 /\ Cardinality(Workers) = 1

\* the returned call fetched the block whose sole attestation is ExampleAtt
\* under the assignment {0: [42, 17]}
ExampleCall(f) ==
    /\ f.pc = "ret"
    /\ f.fetched
    /\ f.attestations = <<ExampleAtt>>
    /\ f.idxToValidators = ExampleCommittees

\* C5: once processSlot(slot) has fetched a block and returned, every voter
\* it decoded has Get(v) >= slot from then on; for the example block, from a
\* cache where 42 and 17 are absent or lower and with no other writer,
\* Get(42) = Get(17) = slot and the call returns 2.
C5_ProcessedVoters ==
    /\ \A v \in DOMAIN hist.applied : Get(cache, v) >= hist.applied[v]
    /\ \A p \in Procs :
         (ExampleCall(ps[p]) /\ ps[p].pre /\ Alone(p)) =>
            /\ Get(cache, 42) = ps[p].slot
            /\ Get(cache, 17) = ps[p].slot
            /\ ps[p].updated = 2

C5_Witness ==
    \E p \in Procs :
        /\ ExampleCall(ps[p])
        /\ ps[p].pre
        /\ Alone(p)
        /\ ps[p].slot > 0
        /\ 42 \in DOMAIN hist.applied

\* C6: every exit from the scan sets lastScannedSlot to the head of the tick,
\* and a slot left out at the deadline is never processed by the scanner in a
\* later tick.
C6_SkippedNeverProcessed ==
    [][/\ (scan.pc = "finish" /\ scan'.pc = "idle") => lastScannedSlot' = scan.headSlot
       /\ (scan.pc = "loop" /\ scan'.pc = "call") => scan.s \notin hist.skipped]_vars

\* the slots Backfill enumerates for head epoch e, newest first
Window(e) ==
    LET hi == e * slotsPerEpoch + slotsPerEpoch - 1
        lo == IF e >= 2 THEN (e - 2) * slotsPerEpoch ELSE 0
    IN [i \in 1..(hi - lo + 1) |-> hi - (i - 1)]

IsPrefix(a, b) == Len(a) <= Len(b) /\ \A i \in 1..Len(a) : a[i] = b[i]

BackfillScanning == bf.pc # "init" /\ bf.err # "head"

Sends == hist'.submitted # hist.submitted

\* C8 as stated: after expiry the scan returns the error with the partial
\* totals, the producer sends no slot and no worker starts the block fetch of
\* a new slot.
C8_NothingAfterExpiry ==
    [][/\ (bf.pc = "wait" /\ bf'.pc = "returned" /\ ctxDone) =>
              /\ bf'.err = "deadline"
              /\ bf'.retSlots = slotsScanned
              /\ bf'.retUpdates = updates
       /\ Sends => ~ctxDone
       /\ \A w \in Workers :
              (ps[w].pc = "fetch" /\ ps[w].attempt = 1 /\ ps'[w] # ps[w]) => ~ctxDone]_vars

\* C8 as amended: after expiry the scan returns the error with the partial
\* totals; the producer sends at most one slot after expiry, and only from the
\* entry of its select, and none once it has seen the expiry; a worker calls
\* processSlot only if the deadline had not expired at its check, a job checked
\* after expiry is dropped uncounted, and no block is obtained after expiry.
C8_CooperativeExpiry ==
    [][/\ (bf.pc = "wait" /\ bf'.pc = "returned" /\ ctxDone) =>
              /\ bf'.err = "deadline"
              /\ bf'.retSlots = slotsScanned
              /\ bf'.retUpdates = updates
       /\ (Sends /\ ctxDone) => (bf.pc = "send" /\ hist.lateSends = 0)
       /\ (Sends /\ ~ctxDone) => hist'.lateSends = hist.lateSends
       /\ bf.produceAborted => ~Sends
       /\ \A w \in Workers :
              /\ (wk[w].pc = "check" /\ wk'[w].pc = "call") => ~ctxDone
              /\ (wk[w].pc = "check" /\ ctxDone /\ wk'[w] # wk[w]) =>
                     /\ wk'[w].pc = "exited"
                     /\ slotsScanned' = slotsScanned
                     /\ ps'[w] = ps[w]
              /\ (~ps[w].fetched /\ ps'[w].fetched) => ~ctxDone]_vars

\* the scan has returned the deadline error after a send made past expiry and
\* with part of the window processed
C8_Witness ==
    /\ bf.pc = "returned"
    /\ bf.err = "deadline"
    /\ hist.lateSends = 1
    /\ bf.retSlots > 0
    /\ bf.retSlots < Len(Window(bf.headEpoch))

\* C9: when the head is resolved and the deadline does not expire, every slot
\* of the window is processed exactly once, the totals are the window size and
\* the sum of the per-slot counts and no error is returned, whatever fetches
\* failed; the only errors are a failed head resolution and the expired
\* deadline.
C9_BackfillCompletes ==
    bf.pc = "returned" =>
        /\ bf.err \in {"none", "head", "deadline"}
        /\ bf.err = "deadline" => ctxDone
        /\ bf.err = "head" => (hist.submitted = <<>> /\ hist.started = {})
        /\ (bf.err # "head" /\ ~ctxDone) =>
              /\ bf.err = "none"
              /\ hist.started = SeqRange(Window(bf.headEpoch))
              /\ ~hist.startedTwice
              /\ bf.retSlots = Len(Window(bf.headEpoch))
              /\ bf.retUpdates = hist.retSum

\* a full window was processed without error although no slot updated the cache
C9_Witness ==
    /\ bf.pc = "returned"
    /\ bf.err = "none"
    /\ bf.headEpoch >= 2
    /\ bf.retSlots = 3 * slotsPerEpoch
    /\ bf.retUpdates = 0

\* C10: a processSlot call makes at most 3 attempts and none after the first
\* that succeeds; when the third fails it returns 0 with no committees request
\* and no cache write, and its caller goes on with the next slot.
C10_ThreeAttempts ==
    [][\A p \in Procs :
         /\ ps'[p].attempt <= maxAttempts
         /\ ps[p].fetched => ps'[p].pc \notin {"fetch", "backoff"}
         /\ ps'[p].pc \in {"committees", "write"} => ps'[p].fetched
         /\ (ps[p].pc = "fetch" /\ ps[p].attempt = maxAttempts /\ ~ps'[p].fetched
               /\ ps'[p] # ps[p]) =>
              /\ ps'[p].pc = "ret"
              /\ ps'[p].updated = 0
              /\ cache' = cache
         /\ (ps[p].pc = "ret" /\ ~ps[p].fetched /\ ps'[p] # ps[p]) =>
              IF p = Scanner
              THEN /\ scan'.pc = "loop"
                   /\ scan'.s = scan.s + 1
                   /\ scan'.updates = scan.updates
              ELSE /\ wk'[p].pc = "recv"
                   /\ slotsScanned' = slotsScanned + 1
                   /\ updates' = updates]_vars

\* a call has returned 0 after its third attempt without a block, inside a
\* scan that has slots left
C10_Witness ==
    \E p \in Procs :
        /\ ps[p].pc = "ret"
        /\ ~ps[p].fetched
        /\ ps[p].attempt = maxAttempts
        /\ Block(ps[p].slot).exists
        /\ IF p = Scanner THEN scan.s < scan.headSlot ELSE jobs # <<>>

\* the head-header answer gave a non-empty root
PrimaryYields ==
    /\ hr.primary.kind = "http"
    /\ hr.primary.status = StatusOK
    /\ ~headerRoot(hr.primary.body).err
    /\ headerRoot(hr.primary.body).root # <<>>

FallbackQueried == hr.fallback.kind # "none"

\* the head-block answer carries a non-empty root at the top level or under data
FallbackYields ==
    /\ hr.fallback.kind = "http"
    /\ \/ NonEmptyString(Field(hr.fallback.body, "root"))
       \/ NonEmptyString(Field(Field(hr.fallback.body, "data"), "root"))

\* C11: resolveHeadRoot returns an error only when the fallback was queried and
\* neither answer gave a non-empty root; a root in the fallback's top-level
\* root field or in data.root is accepted.
C11_ErrorOnlyIfBothFail ==
    hr.pc = "done" =>
        /\ hr.err => (FallbackQueried /\ ~PrimaryYields /\ ~FallbackYields)
        /\ (FallbackQueried /\ FallbackYields) => (~hr.err /\ hr.root # <<>>)

RECURSIVE SumLen(_, _)
\* the total length of the lists assigned to the committees of S
SumLen(S, idxToValidators) ==
    IF S = {} THEN 0
    ELSE LET ci == CHOOSE c \in S : TRUE
         IN Len(MapGet(idxToValidators, ci)) + SumLen(S \ {ci}, idxToValidators)

\* the committees whose bit is set
Included(cbits) == {ci \in 0..(Len(cbits) - 1) : cbits[ci + 1]}

\* the position in the concatenation before the list of committee ci
Offset(cbits, ci, idxToValidators) ==
    SumLen({cj \in Included(cbits) : cj < ci}, idxToValidators)

\* the concatenation, element by element
Concatenation(cbits, idxToValidators) ==
    [n \in 1..SumLen(Included(cbits), idxToValidators) |->
        LET ci == CHOOSE c \in Included(cbits) :
                     /\ Offset(cbits, c, idxToValidators) < n
                     /\ n <= Offset(cbits, c, idxToValidators)
                               + Len(MapGet(idxToValidators, c))
        IN MapGet(idxToValidators, ci)[n - Offset(cbits, ci, idxToValidators)]]

\* the n-th smallest element of a set of numbers
NthOf(P, n) == CHOOSE x \in P : Cardinality({y \in P : y < x}) = n - 1

\* the voters the multi-committee path is to give
ExpectedVoters(att, idxToValidators) ==
    LET aggBits == hexBitlist(att.aggregation_bits)
        concat == Concatenation(hexBitlist(att.committee_bits), idxToValidators)
        P == {q \in 0..(Len(aggBits) - 1) : aggBits[q + 1] /\ q < Len(concat)}
    IN [n \in 1..Cardinality(P) |-> concat[NthOf(P, n) + 1]]

MultiCommittee(att) == att.has_committee_bits /\ att.committee_bits # <<>>

\* C12: with a non-empty committee bitfield the voters are concat[p] for every
\* set aggregation bit p < len(concat), in ascending p, concat being the lists
\* of the committees whose bit is set in ascending committee index; a set bit
\* at p >= len(concat) adds nothing.
C12_MultiCommitteeVoters ==
    (dec.op = "validatorsForAttestation" /\ MultiCommittee(dec.att)) =>
        dec.voters = ExpectedVoters(dec.att, dec.idxToValidators)

\* two committees are included, every aggregation bit is set and five of them
\* lie beyond the concatenation
C12_Witness ==
    /\ dec.op = "validatorsForAttestation"
    /\ dec.att.committee_bits = <<"0", "X", "0", "3">>
    /\ dec.att.aggregation_bits = <<"0", "x", "F", "f">>
    /\ dec.voters = <<42, 17, 7>>

\* a fetched block all of whose attestations lack the committee bitfield
OnlyWithoutBitfield(f) ==
    /\ f.fetched
    /\ f.attestations # <<>>
    /\ \A i \in 1..Len(f.attestations) : ~MultiCommittee(f.attestations[i])

\* C13: an attestation whose committee bitfield is absent or empty has no
\* voters whatever its aggregation bits, and processSlot on a block of such
\* attestations only returns 0 and leaves the cache as it was.
C13_NoBitfieldNoVoters ==
    [][/\ \A agg \in AggregationBitsInputs \cup MalformedHex, idx \in Assignments :
            /\ validatorsForAttestation(AttNoCommitteeBits(agg), idx) = <<>>
            /\ validatorsForAttestation(Att(<<>>, agg), idx) = <<>>
       /\ \A p \in Procs :
            (OnlyWithoutBitfield(ps[p]) /\ ps[p].pc # "ret" /\ ps'[p] # ps[p]) =>
                /\ ps'[p].pc = "ret"
                /\ ps'[p].updated = 0
                /\ ps'[p].decoded = {}
                /\ cache' = cache]_vars

\* processSlot has returned from such a block although the committees were
\* obtained and the cache holds entries the voters would have raised
C13_Witness ==
    \E p \in Procs :
        /\ OnlyWithoutBitfield(ps[p])
        /\ ps[p].pc = "ret"
        /\ ps[p].idxToValidators # NilMap
        /\ 42 \in DOMAIN cache
        /\ cache[42] < ps[p].slot

\* the caller of process p takes the returned value and goes on
CallerContinues(p) ==
    IF p = Scanner
    THEN /\ scan'.pc = "loop"
         /\ scan'.s = scan.s + 1
         /\ scan'.updates = scan.updates
    ELSE /\ wk'[p].pc = "recv"
         /\ slotsScanned' = slotsScanned + 1
         /\ updates' = updates

\* C14: a processSlot call makes at most one committees request; when it fails
\* the assignment is absent, every attestation of the block decodes to no
\* voters, the call returns 0 with the cache unchanged, and its caller goes on
\* with the next slot.
C14_CommitteesOnce ==
    [][\A p \in Procs :
         /\ ps'[p].committeeRequests <= 1
         /\ ps'[p].committeeRequests > ps[p].committeeRequests => ps[p].pc = "committees"
         /\ (ps[p].pc = "committees" /\ ps'[p] # ps[p]) => ps'[p].committeeRequests = 1
         /\ (ps[p].pc = "committees" /\ ps'[p].committeesErr) =>
              /\ ps'[p].idxToValidators = NilMap
              /\ \A i \in 1..Len(ps'[p].attestations) :
                    validatorsForAttestation(ps'[p].attestations[i],
                                             ps'[p].idxToValidators) = <<>>
              /\ ps'[p].pc = "ret"
              /\ ps'[p].updated = 0
              /\ cache' = cache
         /\ (ps[p].pc = "ret" /\ ps[p].committeesErr /\ ps'[p] # ps[p]) =>
              CallerContinues(p)]_vars

\* the committees request of the example block failed, the call has returned
\* and its scan has slots left
C14_Witness ==
    \E p \in Procs :
        /\ ps[p].pc = "ret"
        /\ ps[p].committeesErr
        /\ ps[p].attestations = <<ExampleAtt>>
        /\ IF p = Scanner THEN scan.s < scan.headSlot ELSE jobs # <<>>

\* bit i (0 the least significant) of byte b
BitOf(b, i) == (b \div (2 ^ i)) % 2 = 1

\* C15: hexBitlist of a spelling of N bytes is 8N booleans, element 8*k+i being
\* bit i of byte k; 0x03 decodes to two trues and six falses, a zero byte to
\* eight falses.
C15_EightBitsPerByteLsbFirst ==
    /\ hexBitlist(<<"0", "x", "0", "3">>)
          = <<TRUE, TRUE, FALSE, FALSE, FALSE, FALSE, FALSE, FALSE>>
    /\ hexBitlist(<<"0", "x", "0", "0">>)
          = <<FALSE, FALSE, FALSE, FALSE, FALSE, FALSE, FALSE, FALSE>>
    /\ (dec.op = "hexBitlist" /\ dec.wellFormed) =>
          /\ Len(dec.bits) = 8 * Len(dec.bytes)
          /\ \A k \in 0..(Len(dec.bytes) - 1), i \in 0..7 :
                dec.bits[8 * k + i + 1] = BitOf(dec.bytes[k + 1], i)

\* two bytes spelled in upper case with the 0X prefix have been decoded
C15_Witness ==
    /\ dec.op = "hexBitlist"
    /\ dec.wellFormed
    /\ dec.bytes = <<165, 128>>
    /\ dec.hexstr = <<"0", "X", "A", "5", "8", "0">>
    /\ Len(dec.bits) = 16

\* an input the claim calls empty or malformed
EmptyOrMalformed(hexstr) == hexstr = <<>> \/ hexstr \in MalformedHex

\* an attestation one of whose bitfields is empty or malformed
Defective(att) ==
    \/ EmptyOrMalformed(att.aggregation_bits)
    \/ att.has_committee_bits /\ EmptyOrMalformed(att.committee_bits)

RECURSIVE VotersSkippingDefective(_, _, _)
\* the voters of the attestations that are not defective, in block order
VotersSkippingDefective(attestations, i, idxToValidators) ==
    IF i > Len(attestations) THEN <<>>
    ELSE (IF Defective(attestations[i]) THEN <<>>
          ELSE validatorsForAttestation(attestations[i], idxToValidators))
         \o VotersSkippingDefective(attestations, i + 1, idxToValidators)

\* C16: hexBitlist of an empty or malformed input is the empty sequence; an
\* attestation with such a bitfield has no voters; the voters of a block are
\* those of its other attestations, the ones after a defective one included.
C16_MalformedIsNoBits ==
    /\ dec.op = "hexBitlist" =>
          /\ EmptyOrMalformed(dec.hexstr) => dec.bits = <<>>
          /\ ~dec.wellFormed => EmptyOrMalformed(dec.hexstr)
    /\ (dec.op = "validatorsForAttestation" /\ Defective(dec.att)) => dec.voters = <<>>
    /\ dec.op = "block" =>
          dec.voters = VotersSkippingDefective(dec.attestations, 1, dec.idxToValidators)

\* a block whose first attestation has an odd number of hex digits and whose
\* second has a character that is no hex digit has been decoded, and the third
\* attestation gave the voters
C16_Witness ==
    /\ dec.op = "block"
    /\ dec.attestations = << Att(<<"0", "x", "0", "1">>, <<"0", "x", "1">>),
                             Att(<<"0", "x", "0", "g">>, <<"0", "x", "0", "1">>),
                             ExampleAtt >>
    /\ dec.idxToValidators = ExampleCommittees
    /\ dec.voters = <<42, 17>>

\* the state of Backfill: the producer, the queue, the workers and their
\* processSlot calls
BackfillState ==
    << bf, ctxDone, jobs, closed, slotsScanned, updates, wk, [w \in Workers |-> ps[w]] >>

\* C17: lastScannedSlot changes only in the step of the periodic scanner that
\* ends a scan (line 246), which sets it to that scan's head; no step that
\* changes the state of Backfill, its workers' processSlot calls included,
\* changes it.
C17_CursorPrivateToScanner ==
    [][/\ lastScannedSlot' # lastScannedSlot =>
            /\ scan.pc = "finish"
            /\ scan'.pc = "idle"
            /\ lastScannedSlot' = scan.headSlot
            /\ BackfillState' = BackfillState
       /\ BackfillState' # BackfillState => lastScannedSlot' = lastScannedSlot]_vars

\* the cursor has been written while Backfill is under way: a worker is inside
\* processSlot and the producer has not closed the queue
C17_Witness ==
    /\ lastScannedSlot # 0
    /\ bf.pc \notin {"init", "wait", "returned"}
    /\ ~closed
    /\ \E w \in Workers : wk[w].pc = "call" /\ ps[w].pc # "ret"

\* C18: a tick either enters the loop with a range that is not empty, or goes
\* back to waiting for the next tick with the cursor, the cache and every
\* processSlot frame unchanged (no block request is made); the second happens
\* when the head request failed or the range was empty, and the next tick
\* starts with the head request again.
C18_TickWithoutProgress ==
    [][(scan.pc = "idle" /\ ticks' # ticks) =>
          /\ scan'.pc \in {"idle", "loop"}
          /\ scan'.pc = "loop" =>
                /\ scan'.start <= scan'.headSlot
                /\ hist'.noProgress = hist.noProgress
          /\ scan'.pc = "idle" =>
                /\ hist'.noProgress # {}
                /\ scan' = IdleScan
                /\ lastScannedSlot' = lastScannedSlot
                /\ cache' = cache
                /\ ps' = ps
                /\ ctx2Done' = ctx2Done]_vars

\* both kinds of tick have happened, the second with the cursor at or beyond
\* the head, and the scanner waits for the next tick
C18_Witness ==
    /\ hist.noProgress = {"head", "empty"}
    /\ scan.pc = "idle"
    /\ lastScannedSlot # 0

\* the periodic scanner is inside a scan
Scanning == scan.pc \in {"loop", "call", "finish"}

SlotsStarted == (scan.s - scan.start) + (IF scan.pc = "call" THEN 1 ELSE 0)

\* C20: within a scan processSlot is called for scan.s only, when no call is
\* under way and the deadline has not passed; the next slot is scan.s + 1 and
\* is taken up only after the call has returned; with the deadline passed the
\* loop ends without a call; the slot count is the number of calls made.
C20_SequentialUntilDeadline ==
    [][/\ (scan.pc = "loop" /\ scan'.pc = "call") =>
            /\ ~ctx2Done
            /\ ps[Scanner] = NoCall
            /\ ps'[Scanner].slot = scan.s
            /\ ps'[Scanner].pc = "fetch"
            /\ scan'.s = scan.s
            /\ scan'.slots = scan.slots + 1
       /\ (scan.pc = "loop" /\ ctx2Done /\ scan' # scan) =>
            /\ scan'.pc = "finish"
            /\ scan'.slots = scan.slots
            /\ ps' = ps
       /\ (scan.pc = "call" /\ scan' # scan) =>
            /\ ps[Scanner].pc = "ret"
            /\ scan'.pc = "loop"
            /\ scan'.s = scan.s + 1
            /\ scan'.slots = scan.slots
       /\ (scan.pc = "call" /\ scan'.pc = "call") => ps'[Scanner].slot = ps[Scanner].slot
       /\ scan'.pc \in {"loop", "call", "finish"} => scan'.slots = SlotsStarted']_vars

\* a scan of three slots was cut short by its deadline after two calls
C20_Witness ==
    /\ scan.pc = "finish"
    /\ scan.aborted
    /\ scan.slots = 2
    /\ scan.s = scan.headSlot
    /\ scan.start = scan.headSlot - 2

\* C21: a processSlot call that got no block, or a block with zero
\* attestations, returns 0 and has made no committees request; any other call
\* has made exactly one when it returns, and the voters it applies are those
\* of all attestations under that one assignment; each step of the write loop
\* is one SetIfGreater(voter, slot) call and the count rises by one exactly
\* when the call changed the cache, so the value returned is the number of
\* calls that returned true.
C21_ReturnsNumberOfUpdates ==
    [][\A p \in Procs :
         LET f == ps[p]
             g == ps'[p]
         IN /\ (f.pc # "ret" /\ g.pc = "ret" /\ (~g.fetched \/ g.attestations = <<>>)) =>
                 /\ g.updated = 0
                 /\ g.committeeRequests = 0
            /\ (f.pc # "ret" /\ g.pc = "ret" /\ g.fetched /\ g.attestations # <<>>) =>
                 g.committeeRequests = 1
            /\ (f.pc = "committees" /\ g # f) =>
                 /\ g.attestations = f.attestations
                 /\ g.decoded = SeqRange(VotersOfBlock(g.attestations, 1, g.idxToValidators))
                 /\ g.pc = "write" =>
                      g.voters = VotersOfBlock(g.attestations, 1, g.idxToValidators)
                 /\ g.updated = 0
            /\ (f.pc \in {"fetch", "backoff"} /\ g # f) => (g.updated = 0 /\ cache' = cache)
            /\ (f.pc = "write" /\ g # f) =>
                 /\ cache' = SetIfGreater(cache, Head(f.voters), f.slot)
                 /\ g.updated = f.updated + (IF cache' # cache THEN 1 ELSE 0)
                 /\ g.idxToValidators = f.idxToValidators
                 /\ g.pc = "ret" <=> Len(f.voters) = 1
                 /\ g.pc # "ret" => (g.pc = "write" /\ g.voters = Tail(f.voters))]_vars

\* a call for the block whose two attestations name the same voter has
\* returned 1 after one committees request and two SetIfGreater calls
C21_Witness ==
    \E p \in Procs :
        /\ ps[p].pc = "ret"
        /\ ps[p].fetched
        /\ Len(ps[p].attestations) = 2
        /\ ps[p].committeeRequests = 1
        /\ ps[p].decoded = {7}
        /\ ps[p].updated = 1
        /\ cache[7] = ps[p].slot

\* C22: after a failed attempt k (1 or 2) processSlot waits k * 100 ms; attempt
\* k + 1 is made only out of that wait, when the timer fires first; when the
\* deadline of the caller comes first the call returns 0 out of the wait with
\* no further attempt, no block and the cache unchanged.
C22_BackoffOrAbort ==
    [][\A p \in Procs :
         LET f == ps[p]
             g == ps'[p]
         IN /\ (f.pc = "fetch" /\ g.pc = "backoff") =>
                 /\ f.attempt \in {1, 2}
                 /\ g.attempt = f.attempt
                 /\ g.backoff = f.attempt * 100
            /\ (f.pc \in {"fetch", "backoff"} /\ g.pc = "fetch" /\ g # f) =>
                 /\ f.pc = "backoff"
                 /\ ~ctxOf(p)
                 /\ g.attempt = f.attempt + 1
            /\ (f.pc = "backoff" /\ ctxOf(p) /\ g # f) =>
                 /\ g.pc = "ret"
                 /\ g.attempt = f.attempt
                 /\ g.updated = 0
                 /\ ~g.fetched
                 /\ g.committeeRequests = 0
                 /\ cache' = cache]_vars

\* the deadline passed during the wait of 200 ms after the second attempt and
\* the call has returned
C22_Witness ==
    \E p \in Procs :
        /\ ps[p].pc = "ret"
        /\ ps[p].attempt = 2
        /\ ps[p].backoff = 200
        /\ ctxOf(p)
        /\ 7 \in DOMAIN cache

\* the workers inside processSlot
InFlight == {w \in Workers : ps[w].pc \notin {"none", "ret"}}

\* C23: during a backfill at most maxConcurrency processSlot calls are under
\* way, each worker having at most one, and jobs never holds more than
\* 2 * maxConcurrency slots; while jobs is full no slot is enqueued: the next
\* change of the queue is a worker taking a job, and a producer that waited
\* goes on only when there is room or the deadline has passed.
C23_BoundedPoolAndQueue ==
    [][/\ Cardinality(InFlight') <= maxConcurrency
       /\ \A w \in Workers : ps'[w].pc # "none" => wk'[w].pc = "call"
       /\ Len(jobs') <= 2 * maxConcurrency
       /\ Len(jobs) = 2 * maxConcurrency =>
            /\ hist'.submitted = hist.submitted
            /\ jobs' # jobs => (jobs' = Tail(jobs) /\ \E w \in Workers : wk'[w] # wk[w])
       /\ (bf.pc = "blocked" /\ bf' # bf) =>
            \/ ctxDone /\ jobs' = jobs /\ bf'.produceAborted
            \/ ~ctxDone /\ Len(jobs) < 2 * maxConcurrency]_vars

\* the queue is full, a worker is inside processSlot and the producer waits
\* with a slot left to send
C23_Witness ==
    /\ Len(jobs) = 2 * maxConcurrency
    /\ bf.pc = "blocked"
    /\ ~ctxDone
    /\ InFlight # {}
    /\ maxConcurrency > 1

\* Backfill has returned; when it got as far as scanEpochRange the queue is
\* closed and every worker has left its loop
BackfillOver ==
    /\ bf.pc = "returned"
    /\ bf.err # "head" =>
          /\ closed
          /\ bf.pc # "blocked"
          /\ \A w \in Workers : wk[w].pc = "exited"

\* C24: under fair scheduling, with every outbound call returning, Backfill
\* returns in every execution, with or without the deadline expiring: the
\* producer has stopped, the queue is closed and all workers have exited.
C24_BackfillTerminates == <>[]BackfillOver

\* every worker has left at the deadline while the producer waits on the full
\* queue with slots left to send
C24_Witness ==
    /\ bf.pc = "blocked"
    /\ Len(jobs) = jobsCapacity
    /\ ctxDone
    /\ \A w \in Workers : wk[w].pc = "exited"

\* C25: no step lowers lastScannedSlot, whatever heads the ticks resolve.
C25_CursorNeverDecreases ==
    [][lastScannedSlot' >= lastScannedSlot]_vars

\* a tick has resolved a head below the cursor set by an earlier scan
C25_Witness ==
    /\ "behind" \in hist.noProgress
    /\ lastScannedSlot > 0
    /\ scan.pc = "idle"

\* the voters of the attestations a call has fetched, counted once each
DistinctVoters(f) == SeqRange(VotersOfBlock(f.attestations, 1, f.idxToValidators))

\* C26: no two SetIfGreater calls with the same index and slot return true,
\* whoever makes them and however they interleave; a pair that returned true
\* is held by the cache at that slot or above; the count of a processSlot call
\* never exceeds the number of distinct voters of its block.
C26_OneUpdatePerVoterAndSlot ==
    /\ ~hist.wonTwice
    /\ \A pair \in hist.won : pair[1] \in DOMAIN cache /\ cache[pair[1]] >= pair[2]
    /\ \A p \in Procs :
         ps[p].pc \in {"write", "ret"} =>
            ps[p].updated <= Cardinality(DistinctVoters(ps[p]))

\* the scanner and a worker have both processed the block whose two
\* attestations name voter 7, and only one of the four calls returned true
C26_Witness ==
    /\ \E w \in Workers :
         /\ ps[w].pc = "ret" /\ ps[w].fetched /\ ps[w].decoded = {7}
         /\ ps[Scanner].pc = "ret" /\ ps[Scanner].fetched
         /\ ps[Scanner].slot = ps[w].slot
         /\ ps[Scanner].decoded = {7}
         /\ ps[w].updated + ps[Scanner].updated = 1
         /\ <<7, ps[w].slot>> \in hist.won

\* C27: the cache starts empty; every step that changes it is the write of a
\* processSlot call that fetched the block of its slot and decoded the voter
\* from one of its attestations, and stores that slot for that voter only;
\* hence every entry (v, s) was stored by such a call for slot s, and v is a
\* voter of the chain's block of slot s.
C27_EveryEntryHasItsCall ==
    /\ cache = NoMap
    /\ [][/\ cache' # cache =>
               \E p \in Procs :
                  LET f == ps[p]
                      v == Head(f.voters)
                  IN /\ f.pc = "write"
                     /\ f.fetched
                     /\ Block(f.slot).exists
                     /\ f.attestations = Block(f.slot).attestations
                     /\ v \in DistinctVoters(f)
                     /\ DOMAIN cache' = DOMAIN cache \cup {v}
                     /\ cache'[v] = f.slot
                     /\ \A u \in DOMAIN cache : u # v => cache'[u] = cache[u]
          /\ \A v \in DOMAIN cache' :
                /\ <<v, cache'[v]>> \in hist'.won
                /\ v \in ChainVoters(cache'[v])]_vars

\* every validator of the chain has an entry, stored by calls for two slots
C27_Witness ==
    /\ DOMAIN cache = {42, 17, 7}
    /\ cache[42] # cache[7]
    /\ \A p \in Procs : ps[p].pc \in {"none", "ret"}

\* C28: every slot the scanner passes to processSlot is above every slot it
\* has passed before, in this tick or an earlier one, so that the ranges of
\* successive ticks are disjoint and increasing.
C28_RangesDisjointIncreasing ==
    [][(scan.pc = "loop" /\ scan'.pc = "call") => scan.s > hist.scannedMax]_vars

====
